---- MODULE Spec2Model ----
(***************************************************************************)
(* A model of strava_multi_account.py: main's per-account authenticate and *)
(* fetch loop, the combined routes map, the combined heatmap with its      *)
(* location aggregation, detail maps, markers and sidebar, and the pure    *)
(* helpers (location resolver, account colors, density normalisation).     *)
(*                                                                         *)
(* Strings are TLA+ strings; a Python Optional[str] is a sequence of       *)
(* length 0 (None) or 1.  Coordinates are integers in hundredths of a      *)
(* degree; a missing start_latlng is the empty tuple.                      *)
(***************************************************************************)
EXTENDS Integers, Sequences, FiniteSets, TLC

\* ------------------------------------------------------------------ bounds

\* Most activities one run loads over all accounts.
MaxActs == 3

\* Page size of the activity listing.  The source asks for 100 per page
\* (get_all_activities, per_page = 100); the model scales it down so that a
\* full page, and with it a second request, fits in MaxActs.
per_page == 2

\* Most get_account_color calls on one mapping in the color specification.
MaxCalls == 4

\* Most locations and the largest per-location count in the density
\* specification.
MaxLocs == 3

MaxPerLocation == 4

\* Most activities of named places the naming specification loads.
MaxNamed == 2

\* ----------------------------------------------------------------- strings

None == <<>>

Some(s) == <<s>>

Truthy(opt) == opt /= None /\ opt[1] /= ""

Chars(s) == {SubSeq(s, i, i) : i \in 1..Len(s)}

UpperCase == "ABCDEFGHIJKLMNOPQRSTUVWXYZ"

LowerCase == "abcdefghijklmnopqrstuvwxyz"

Digits == "0123456789"

LowerTable ==
    [c \in Chars(UpperCase) |->
        LET i == CHOOSE j \in 1..Len(UpperCase) : SubSeq(UpperCase, j, j) = c
        IN  SubSeq(LowerCase, i, i)]

\* str.lower() on one character (ASCII letters; the others are unchanged).
LowerChar(c) == IF c \in DOMAIN LowerTable THEN LowerTable[c] ELSE c

RECURSIVE Lower(_)
Lower(s) ==
    IF Len(s) = 0 THEN ""
    ELSE LowerChar(SubSeq(s, 1, 1)) \o Lower(SubSeq(s, 2, Len(s)))

\* Python's  sub in s .
Contains(s, sub) ==
    \E i \in 1..(Len(s) - Len(sub) + 1) : SubSeq(s, i, i + Len(sub) - 1) = sub

\* s.split(sep)[-1]: what follows the last occurrence of sep (s itself when
\* sep does not occur).
LastPart(s, sep) ==
    IF ~Contains(s, sep) THEN s
    ELSE LET last == CHOOSE i \in 1..(Len(s) - Len(sep) + 1) :
                        /\ SubSeq(s, i, i + Len(sep) - 1) = sep
                        /\ \A j \in (i + 1)..(Len(s) - Len(sep) + 1) :
                              SubSeq(s, j, j + Len(sep) - 1) /= sep
         IN  SubSeq(s, last + Len(sep), Len(s))

RECURSIVE NatStr(_)
NatStr(n) ==
    IF n < 10 THEN SubSeq(Digits, n + 1, n + 1)
    ELSE NatStr(n \div 10) \o SubSeq(Digits, (n % 10) + 1, (n % 10) + 1)

Abs(n) == IF n < 0 THEN -n ELSE n

\* round(x, 1) for x given in hundredths of a degree; the result is in
\* tenths.  Python rounds the stored binary value to the nearest tenth, so
\* a decimal tie (last digit 5) depends on the float's representation: the
\* coordinates the model draws have no such tie.  Ties go to even here.
Round1(h) ==
    LET q == Abs(h) \div 10
        r == Abs(h) % 10
        up == r > 5 \/ (r = 5 /\ q % 2 = 1)
        t == IF up THEN q + 1 ELSE q
    IN  IF h < 0 THEN -t ELSE t

\* str() of a float with one decimal, from its value in tenths.
FloatStr(t) ==
    (IF t < 0 THEN "-" ELSE "") \o NatStr(Abs(t) \div 10) \o "."
        \o NatStr(Abs(t) % 10)

\* ----------------------------------------------------- country / continent

Europe ==
    {"Germany", "France", "Italy", "Spain", "United Kingdom", "Netherlands",
     "Belgium", "Switzerland", "Austria", "Portugal", "Greece", "Poland",
     "Czech Republic", "Sweden", "Norway", "Denmark", "Finland", "Ireland",
     "Croatia", "Slovenia", "Hungary", "Romania", "Bulgaria", "Serbia",
     "Slovakia", "Iceland"}

NorthAmerica ==
    {"United States", "United States of America", "Canada", "Mexico",
     "El Salvador", "Costa Rica", "Panama", "Guatemala", "Honduras",
     "Nicaragua", "Belize"}

SouthAmerica ==
    {"Brazil", "Argentina", "Chile", "Peru", "Colombia", "Venezuela",
     "Ecuador", "Bolivia", "Paraguay", "Uruguay", "Guyana", "Suriname"}

Asia ==
    {"China", "Japan", "India", "Thailand", "Vietnam", "Indonesia",
     "Malaysia", "Singapore", "South Korea", "Taiwan", "Philippines"}

Africa ==
    {"South Africa", "Egypt", "Morocco", "Kenya", "Tanzania", "Nigeria"}

Oceania == {"Australia", "New Zealand", "Fiji"}

get_continent_from_country(country) ==
    CASE country \in Europe -> "Europe"
      [] country \in NorthAmerica -> "North America"
      [] country \in SouthAmerica -> "South America"
      [] country \in Asia -> "Asia"
      [] country \in Africa -> "Africa"
      [] country \in Oceania -> "Oceania"
      [] OTHER -> "Unknown"

\* ------------------------------------------------------- reverse geocoding

\* "{city}, {country}" / country / city / None: lines 341-348, and again in
\* get_location_key, lines 399-404.
FormatPlace(city, country) ==
    IF city /= "" /\ country /= "" THEN Some(city \o ", " \o country)
    ELSE IF country /= "" THEN Some(country)
    ELSE IF city /= "" THEN Some(city)
    ELSE None

CacheKey(latlng) ==
    FloatStr(Round1(latlng[1])) \o "," \o FloatStr(Round1(latlng[2]))

\* What the geocoding request can come back with: an HTTP response with a
\* status and the address fields, or a raised exception (timeout, connection
\* error, invalid JSON).
GeoResponses ==
    {[raised |-> FALSE, status |-> 200, city |-> c, country |-> k] :
        c \in {"", "Berlin"}, k \in {"", "Germany"}}
    \cup {[raised |-> FALSE, status |-> 500, city |-> "", country |-> ""],
          [raised |-> TRUE, status |-> 0, city |-> "", country |-> ""]}

\* The answers the heatmap run draws: a full address, an address without
\* city and country, an error status and an exception.
RunGeoResponses == {r \in GeoResponses : (r.city = "") = (r.country = "")}

get_city_from_coordinates_caches_success_only(latlng, cache, resp) ==
    LET cache_key == CacheKey(latlng)
        request == [op |-> "request", cell |-> cache_key]
        sleep == [op |-> "sleep", cell |-> cache_key]
    IN  IF cache_key \in DOMAIN cache
        THEN [result |-> cache[cache_key], cache |-> cache, net |-> <<>>]
        ELSE IF ~resp.raised /\ resp.status = 200
        THEN LET result == FormatPlace(resp.city, resp.country)
             IN  [result |-> result,
                  cache |-> (cache_key :> result) @@ cache,
                  net |-> <<request, sleep>>]
        ELSE [result |-> None, cache |-> cache, net |-> <<request>>]

\* get_city_from_coordinates: the cached value when the cell is cached;
\* otherwise one request, whose result is cached.  net lists the network
\* request (with the cell it is for) and the sleep the call made, in order.
get_city_from_coordinates(latlng, cache, resp) ==
    LET cache_key == CacheKey(latlng)
        request == [op |-> "request", cell |-> cache_key]
        sleep == [op |-> "sleep", cell |-> cache_key]
    IN  IF cache_key \in DOMAIN cache
        THEN [result |-> cache[cache_key], cache |-> cache, net |-> <<>>]
        ELSE IF ~resp.raised /\ resp.status = 200
        THEN LET result == FormatPlace(resp.city, resp.country)
             IN  [result |-> result,
                  cache |-> (cache_key :> result) @@ cache,
                  net |-> <<request, sleep>>]
        ELSE [result |-> None,
              cache |-> (cache_key :> None) @@ cache,
              net |-> <<request>>]

HasLatLng(activity) == activity.start_latlng /= <<>>

FallbackKey(latlng) ==
    "Location (" \o FloatStr(Round1(latlng[1])) \o "°, "
        \o FloatStr(Round1(latlng[2])) \o "°)"

get_location_key_city_first(activity, geocode_cache, resp) ==
    LET city == activity.location_city
        country == activity.location_country
    IN  IF city /= ""
        THEN [key |-> city, cache |-> geocode_cache, net |-> <<>>]
        ELSE IF country /= ""
        THEN [key |-> country, cache |-> geocode_cache, net |-> <<>>]
        ELSE IF HasLatLng(activity)
        THEN LET r == get_city_from_coordinates(activity.start_latlng,
                                                geocode_cache, resp)
             IN  [key |-> IF Truthy(r.result) THEN r.result[1]
                          ELSE FallbackKey(activity.start_latlng),
                  cache |-> r.cache, net |-> r.net]
        ELSE [key |-> "Unknown", cache |-> geocode_cache, net |-> <<>>]

\* get_location_key: the key, the cache after the call and the network
\* events of the call.
get_location_key(activity, geocode_cache, resp) ==
    LET explicit == FormatPlace(activity.location_city,
                                activity.location_country)
    IN  IF explicit /= None
        THEN [key |-> explicit[1], cache |-> geocode_cache, net |-> <<>>]
        ELSE IF HasLatLng(activity)
        THEN LET r == get_city_from_coordinates(activity.start_latlng,
                                                geocode_cache, resp)
             IN  [key |-> IF Truthy(r.result) THEN r.result[1]
                          ELSE FallbackKey(activity.start_latlng),
                  cache |-> r.cache, net |-> r.net]
        ELSE [key |-> "Unknown", cache |-> geocode_cache, net |-> <<>>]

\* ----------------------------------------------------------- account colors

Palette ==
    <<"#ef4444", "#3b82f6", "#10b981", "#f59e0b", "#8b5cf6",
      "#ec4899", "#06b6d4", "#84cc16", "#f97316", "#6366f1">>

get_account_color_reserved_from_palette(account_name, account_colors) ==
    IF account_name \in DOMAIN account_colors THEN account_colors
    ELSE (account_name :>
            Palette[(Cardinality(DOMAIN account_colors) % Len(Palette)) + 1])
         @@ account_colors

\* get_account_color: the mapping after the call; the color the call returns
\* is the mapping's value at account_name.
get_account_color(account_name, account_colors) ==
    LET lower == Lower(account_name)
        with(c) == (account_name :> c) @@ account_colors
    IN  IF lower = "m" THEN with("#8b5cf6")
        ELSE IF lower = "a" THEN with("#10b981")
        ELSE IF lower = "o" THEN with("#f97316")
        ELSE IF account_name \in DOMAIN account_colors THEN account_colors
        ELSE with(Palette[(Cardinality(DOMAIN account_colors) % Len(Palette))
                          + 1])

\* ------------------------------------------------------------ statistics

Tracked == {"run", "walk", "ride"}

ZeroStats == [runs |-> 0, walks |-> 0, rides |-> 0, total |-> 0]

\* account_stats[account_name] of a defaultdict, read without inserting.
StatsOf(account_stats, account_name) ==
    IF account_name \in DOMAIN account_stats THEN account_stats[account_name]
    ELSE ZeroStats

CountActivityTotalOnly(account_stats, account_name, activity_type) ==
    (account_name :>
        [StatsOf(account_stats, account_name) EXCEPT !.total = @ + 1])
    @@ account_stats

CountActivityNoWalks(account_stats, account_name, activity_type) ==
    LET s == StatsOf(account_stats, account_name)
        t == [s EXCEPT !.total = @ + 1]
    IN  (account_name :>
            CASE activity_type = "run" -> [t EXCEPT !.runs = @ + 1]
              [] activity_type = "ride" -> [t EXCEPT !.rides = @ + 1]
              [] OTHER -> t)
        @@ account_stats

\* total += 1, then the counter of the activity's kind.
CountActivity(account_stats, account_name, activity_type) ==
    LET s == StatsOf(account_stats, account_name)
        t == [s EXCEPT !.total = @ + 1]
    IN  (account_name :>
            CASE activity_type = "run" -> [t EXCEPT !.runs = @ + 1]
              [] activity_type = "walk" -> [t EXCEPT !.walks = @ + 1]
              [] activity_type = "ride" -> [t EXCEPT !.rides = @ + 1]
              [] OTHER -> t)
        @@ account_stats

IsTracked(activity) == Lower(activity.type) \in Tracked

FilterKeepsAll(all) == all

\* filtered_activities of both map builders.
FilterTracked(all) == SelectSeq(all, IsTracked)

\* polyline.decode succeeds on the activity's summary_polyline.
Decodes(polyline_str) == polyline_str /= "bad"

\* ------------------------------------------------------------------ inputs

Berlin1 == <<5248, 1338>>

Berlin2 == <<5252, 1341>>

CapeTown == <<-3392, 1842>>

\* The activities an account's listing can hold (before main stamps the
\* account on them): tracked kinds in several spellings and one untracked
\* kind, with and without start coordinates, explicit city/country, and a
\* missing, a decodable and a malformed polyline.
Shapes ==
    {[type |-> "Run", start_latlng |-> Berlin1, location_city |-> "",
      location_country |-> "", summary_polyline |-> "enc"],
     [type |-> "run", start_latlng |-> Berlin2, location_city |-> "",
      location_country |-> "", summary_polyline |-> "enc"],
     [type |-> "Ride", start_latlng |-> <<>>, location_city |-> "Paris",
      location_country |-> "France", summary_polyline |-> "enc"],
     [type |-> "Hike", start_latlng |-> CapeTown, location_city |-> "",
      location_country |-> "", summary_polyline |-> "enc"],
     [type |-> "Walk", start_latlng |-> CapeTown, location_city |-> "",
      location_country |-> "Narnia", summary_polyline |-> ""],
     [type |-> "Ride", start_latlng |-> Berlin1, location_city |-> "Berlin",
      location_country |-> "Germany", summary_polyline |-> "bad"]}

\* activity["_account"] = account_name
Stamp(shape, account_name) ==
    [account |-> account_name, type |-> shape.type,
     start_latlng |-> shape.start_latlng,
     location_city |-> shape.location_city,
     location_country |-> shape.location_country,
     summary_polyline |-> shape.summary_polyline]

SeqsUpTo(S, n) == UNION {[1..k -> S] : k \in 0..n}

\* The account lists main can collect from its prompts.
AccountLists == {<<"m", "a">>, <<"m", "x">>, <<"x", "y">>}

Timestamp == "20260101_120000"

\* ------------------------------------------------------------------- state

VARIABLES
    pc,                 \* where the run is
    accounts,           \* main: the account names, in prompt order
    cred_i,             \* main: index of the account being processed
    auth_call,          \* authenticate_strava: the last call, its token file and result
    auth_log,           \* authenticate_strava: token requests of the last call
    page,               \* get_all_activities: page
    activities,         \* get_all_activities: activities
    all_activities,     \* main: all_activities
    printed,            \* the run-level failure messages printed so far
    written,            \* names of the documents saved so far
    filtered_activities, \* the running map builder's filtered_activities
    r_i,                \* routes map: filtered activities processed
    r_stats,            \* routes map: account_stats
    r_colors,           \* routes map: account_colors
    r_drawn,            \* routes map: activities drawn as polylines
    routes_file,        \* main: routes_file
    h_i,                \* heatmap: filtered activities processed
    location_data,      \* heatmap: location_data
    loc_order,          \* heatmap: location_data's keys in insertion order
    geocode_cache,      \* heatmap: geocode_cache
    net_log,            \* geocoding requests and sleeps, in order
    countries_visited,  \* heatmap: countries_visited
    continents_visited, \* heatmap: continents_visited
    detail_i,           \* heatmap: locations whose detail map was attempted
    detail_maps,        \* location key -> what its detail map shows
    location_map_files, \* heatmap: location_map_files
    markers,            \* heatmap: the circles added to the map
    h_stats,            \* heatmap: account_stats
    h_colors,           \* heatmap: account_colors
    sidebar,            \* heatmap: the sidebar's summary numbers
    heatmap_file,       \* main: heatmap_file
    account_colors,     \* color specification: the mapping
    calls,              \* color specification: the names passed so far
    returned,           \* color specification: the color of the last call
    resolved,           \* resolver specification: the last call and its key
    counts,             \* density specification: per-location counts
    radii,              \* density specification: per-location radius
    str_hash,           \* region specification: hash() of each process
    region_colors       \* region specification: colors returned, per process

mainVars == <<accounts, cred_i, auth_call, auth_log, page, activities,
              all_activities>>

outVars == <<printed, written>>

mapVars == <<filtered_activities>>

routesVars == <<r_i, r_stats, r_colors, r_drawn, routes_file>>

geoVars == <<geocode_cache, net_log>>

aggVars == <<h_i, location_data, loc_order, countries_visited,
             continents_visited>>

renderVars == <<detail_i, detail_maps, location_map_files, markers, h_stats,
                h_colors, sidebar, heatmap_file>>

colorVars == <<account_colors, calls, returned>>

resolverVars == <<resolved>>

densityVars == <<counts, radii>>

regionVars == <<str_hash, region_colors>>

vars == <<pc, mainVars, outVars, mapVars, routesVars, geoVars, aggVars, renderVars,
          colorVars, resolverVars, densityVars, regionVars>>

Empty == <<>>

\* The state every specification starts from, but for pc and its inputs
\* (the account list, main's position in it, the activities loaded, the
\* density specification's counts).
Blank ==
    /\ auth_call = None
    /\ auth_log = <<>>
    /\ page = 1
    /\ activities = <<>>
    /\ printed = {}
    /\ written = {}
    /\ filtered_activities = <<>>
    /\ r_i = 0
    /\ r_stats = Empty
    /\ r_colors = Empty
    /\ r_drawn = <<>>
    /\ routes_file = None
    /\ h_i = 0
    /\ location_data = Empty
    /\ loc_order = <<>>
    /\ geocode_cache = Empty
    /\ net_log = <<>>
    /\ countries_visited = {}
    /\ continents_visited = {}
    /\ detail_i = 0
    /\ detail_maps = Empty
    /\ location_map_files = Empty
    /\ markers = Empty
    /\ h_stats = Empty
    /\ h_colors = Empty
    /\ sidebar = Empty
    /\ heatmap_file = None
    /\ account_colors = Empty
    /\ calls = <<>>
    /\ returned = None
    /\ resolved = None
    /\ str_hash = Empty
    /\ region_colors = Empty

\* main after the prompts: the account list is known, nothing is loaded.
Init ==
    /\ pc = "auth"
    /\ accounts \in AccountLists
    /\ cred_i = 1
    /\ all_activities = <<>>
    /\ Blank
    /\ counts = Empty
    /\ radii = Empty

\* --------------------------------------------- specifications of the helpers

\* The account names the color specification passes to get_account_color:
\* the reserved ones, one of them in upper case, and others.
ColorNames == {"m", "a", "o", "M", "x", "y"}

InitColor ==
    /\ pc = "colors"
    /\ accounts = <<>>
    /\ cred_i = 1
    /\ all_activities = <<>>
    /\ Blank
    /\ counts = Empty
    /\ radii = Empty

\* One get_account_color call on the mapping.
ColorCall ==
    /\ pc = "colors"
    /\ Len(calls) < MaxCalls
    /\ \E account_name \in ColorNames :
          /\ account_colors' = get_account_color(account_name, account_colors)
          /\ calls' = Append(calls, account_name)
          /\ returned' = Some(account_colors'[account_name])
    /\ UNCHANGED <<pc, mainVars, outVars, mapVars, routesVars, geoVars,
                   aggVars, renderVars, resolverVars, densityVars,
                   regionVars>>

SpecColor == InitColor /\ [][ColorCall]_vars

\* The activities the resolver specification passes to get_location_key.
ResolverActivities ==
    {[account |-> "m", type |-> "Run", start_latlng |-> ll,
      location_city |-> c, location_country |-> k,
      summary_polyline |-> ""] :
        ll \in {<<>>, Berlin1, Berlin2, CapeTown},
        c \in {"", "Paris"}, k \in {"", "France"}}

InitResolver ==
    /\ pc = "resolver"
    /\ accounts = <<>>
    /\ cred_i = 1
    /\ all_activities = <<>>
    /\ Blank
    /\ counts = Empty
    /\ radii = Empty

\* One get_location_key call on the run's cache.
Resolve ==
    /\ pc = "resolver"
    /\ \E activity \in ResolverActivities, resp \in GeoResponses :
          LET r == get_location_key(activity, geocode_cache, resp)
          IN  /\ resolved' = Some([activity |-> activity, key |-> r.key,
                                   resp |-> resp, before |-> geocode_cache])
              /\ geocode_cache' = r.cache
              /\ net_log' = net_log \o r.net
    /\ UNCHANGED <<pc, mainVars, outVars, mapVars, routesVars, aggVars,
                   renderVars, colorVars, densityVars, regionVars>>

SpecResolver == InitResolver /\ [][Resolve]_vars

InitDensity ==
    /\ pc = "density"
    /\ accounts = <<>>
    /\ cred_i = 1
    /\ all_activities = <<>>
    /\ \E n \in 1..MaxLocs :
          /\ counts \in [1..n -> 1..MaxPerLocation]
          /\ radii = Empty
    /\ Blank

\* -------------------------------------------------------------------- main

TokenFiles == {"absent", "valid", "expired", "expired_no_refresh_token"}

\* A token request's outcome: status 200, another status, or requests.post
\* raising (no handler around it in refresh_strava_token or
\* authenticate_strava).
TokenResponses == {"ok", "error", "raised"}

\* The full OAuth flow, from the authorization redirect to the token
\* exchange: the token (or None), whether an exception left the function,
\* and the token requests made.
FullOAuthFlow(log, exchange_resp) ==
    [token |-> exchange_resp = "ok", raised |-> exchange_resp = "raised",
     log |-> Append(log, [request |-> "exchange",
                          response |-> exchange_resp])]

authenticate_strava_retries_exchange(token_file, refresh_resp, exchange_resp) ==
    LET refresh == [request |-> "refresh", response |-> refresh_resp]
        again(r) == IF r.token \/ r.raised THEN r
                    ELSE FullOAuthFlow(r.log, exchange_resp)
    IN  CASE token_file = "valid" ->
                [token |-> TRUE, raised |-> FALSE, log |-> <<>>]
          [] token_file = "expired" ->
                IF refresh_resp = "ok"
                THEN [token |-> TRUE, raised |-> FALSE, log |-> <<refresh>>]
                ELSE IF refresh_resp = "raised"
                THEN [token |-> FALSE, raised |-> TRUE, log |-> <<refresh>>]
                ELSE again(FullOAuthFlow(<<refresh>>, exchange_resp))
          [] OTHER -> again(FullOAuthFlow(<<>>, exchange_resp))

\* authenticate_strava with refresh_strava_token inlined.  log lists the
\* token requests of the call with what each came back with.
authenticate_strava(token_file, refresh_resp, exchange_resp) ==
    LET refresh == [request |-> "refresh", response |-> refresh_resp] IN
    CASE token_file = "valid" ->
            [token |-> TRUE, raised |-> FALSE, log |-> <<>>]
      [] token_file = "expired" ->
            IF refresh_resp = "ok"
            THEN [token |-> TRUE, raised |-> FALSE, log |-> <<refresh>>]
            ELSE IF refresh_resp = "raised"
            THEN [token |-> FALSE, raised |-> TRUE, log |-> <<refresh>>]
            ELSE FullOAuthFlow(<<refresh>>, exchange_resp)
      [] OTHER -> FullOAuthFlow(<<>>, exchange_resp)

\* main, lines 1100-1109, once the account loop is over.
AfterAccounts(all) == IF all = <<>> THEN "no_activities" ELSE "routes"

AfterAccount(i, all) ==
    IF i < Len(accounts) THEN "auth" ELSE AfterAccounts(all)

\* main's loop body up to the token: authenticate_strava for the current
\* account.  No token: the account is skipped.  An exception leaves main
\* and ends the run in the handler at the bottom of the file.
Authenticate ==
    /\ pc = "auth"
    /\ \E token_file \in TokenFiles, refresh_resp, exchange_resp \in TokenResponses :
          LET r == authenticate_strava(token_file, refresh_resp, exchange_resp)
          IN  /\ auth_log' = r.log
              /\ auth_call' = Some([account |-> accounts[cred_i],
                                    token_file |-> token_file,
                                    token |-> r.token, raised |-> r.raised])
              /\ IF r.raised
                 THEN /\ pc' = "aborted"
                      /\ printed' = printed \cup {"Fehler"}
                      /\ UNCHANGED cred_i
                 ELSE IF ~r.token
                 THEN /\ pc' = AfterAccount(cred_i, all_activities)
                      /\ cred_i' = cred_i + 1
                      /\ UNCHANGED printed
                 ELSE /\ pc' = "fetch"
                      /\ UNCHANGED <<printed, cred_i>>
    /\ page' = 1
    /\ activities' = <<>>
    /\ UNCHANGED <<accounts, all_activities, written, mapVars, routesVars,
                   geoVars, aggVars, renderVars, colorVars, resolverVars, regionVars,
                   densityVars>>

\* What one GET of the activity listing can come back with.
FetchResponses(room) ==
    {[raised |-> FALSE, status |-> 200, body |-> b] :
        b \in SeqsUpTo(Shapes, IF room < per_page THEN room ELSE per_page)}
    \cup {[raised |-> FALSE, status |-> 429, body |-> <<>>],
          [raised |-> FALSE, status |-> 500, body |-> <<>>],
          [raised |-> TRUE, status |-> 0, body |-> <<>>]}

\* One turn of get_all_activities' loop: whether requests.get raised,
\* whether the loop ends, and activities and page after it.
PageOf(loaded, p, account_name, resp) ==
    IF resp.raised
    THEN [raised |-> TRUE, done |-> TRUE, activities |-> loaded, page |-> p]
    ELSE IF resp.status /= 200
    THEN [raised |-> FALSE, done |-> TRUE, activities |-> loaded, page |-> p]
    ELSE LET got == loaded \o [k \in 1..Len(resp.body) |->
                                  Stamp(resp.body[k], account_name)]
         IN  [raised |-> FALSE,
              done |-> resp.body = <<>> \/ Len(resp.body) < per_page,
              activities |-> got,
              page |-> IF Len(resp.body) < per_page THEN p ELSE p + 1]

\* get_all_activities, one page per step, and on its return main's lines
\* 1094-1098.
FetchPage ==
    /\ pc = "fetch"
    /\ \E resp \in FetchResponses(MaxActs - Len(all_activities)
                                   - Len(activities)) :
          LET r == PageOf(activities, page, accounts[cred_i], resp) IN
          IF r.raised
          THEN /\ pc' = "aborted"
               /\ printed' = printed \cup {"Fehler"}
               /\ UNCHANGED <<cred_i, page, activities, all_activities>>
          ELSE IF r.done
          THEN /\ all_activities' = all_activities \o r.activities
               /\ pc' = AfterAccount(cred_i, all_activities')
               /\ cred_i' = cred_i + 1
               /\ page' = 1
               /\ activities' = <<>>
               /\ UNCHANGED printed
          ELSE /\ activities' = r.activities
               /\ page' = r.page
               /\ UNCHANGED <<pc, cred_i, all_activities, printed>>
    /\ auth_log' = <<>>
    /\ auth_call' = None
    /\ UNCHANGED <<accounts, written, mapVars, routesVars, geoVars, aggVars,
                   renderVars, colorVars, resolverVars, densityVars,
                   regionVars>>

\* ------------------------------------------------------ combined routes map

\* The try block of the route loop, lines 598-630: nothing for a missing
\* polyline; a decode error is caught before anything is counted.
AddRoute(activity, st) ==
    IF activity.summary_polyline = "" \/ ~Decodes(activity.summary_polyline)
    THEN st
    ELSE LET colors == get_account_color(activity.account, st.colors)
         IN  [colors |-> colors,
              stats |-> CountActivity(st.stats, activity.account,
                                      Lower(activity.type)),
              drawn |-> Append(st.drawn,
                               [activity |-> activity,
                                color |-> colors[activity.account]])]

\* The legend loop over accounts: account_stats[account_name] inserts the
\* default, get_account_color may extend the mapping.  legend lists the
\* (account, color, stats) rows.
RECURSIVE Legend(_, _, _, _)
Legend(names, stats, colors, rows) ==
    IF names = <<>> THEN [stats |-> stats, colors |-> colors, legend |-> rows]
    ELSE LET n == Head(names)
             st == (n :> StatsOf(stats, n)) @@ stats
             cs == get_account_color(n, colors)
         IN  Legend(Tail(names), st, cs,
                    Append(rows, [account |-> n, color |-> cs[n],
                                  stats |-> st[n]]))

HasLocatedAlways(acts) == TRUE

\* Some activity of the list has a start coordinate.
HasLocated(acts) == \E k \in 1..Len(acts) : HasLatLng(acts[k])

NoGpsMessage == "Keine Aktivitäten mit GPS-Daten gefunden"

RoutesFileName == "combined_routes_" \o Timestamp \o ".html"

\* create_combined_routes_map up to the route loop, lines 562-593.
RoutesBegin ==
    /\ pc = "routes"
    /\ filtered_activities' = FilterTracked(all_activities)
    /\ IF HasLocated(filtered_activities')
       THEN /\ pc' = "routes_loop"
            /\ UNCHANGED printed
       ELSE /\ pc' = "heat_begin"
            /\ printed' = printed \cup {NoGpsMessage}
    /\ UNCHANGED <<mainVars, written, routesVars, geoVars, aggVars,
                   renderVars, colorVars, resolverVars, densityVars,
                   regionVars>>

\* One turn of the route loop, lines 597-630.
RoutesAddRoute ==
    /\ pc = "routes_loop"
    /\ r_i < Len(filtered_activities)
    /\ LET st == AddRoute(filtered_activities[r_i + 1],
                          [stats |-> r_stats, colors |-> r_colors,
                           drawn |-> r_drawn])
       IN  /\ r_stats' = st.stats
           /\ r_colors' = st.colors
           /\ r_drawn' = st.drawn
    /\ r_i' = r_i + 1
    /\ UNCHANGED <<pc, mainVars, outVars, mapVars, routes_file, geoVars,
                   aggVars, renderVars, colorVars, resolverVars, densityVars,
                   regionVars>>

\* The legend and the save, lines 632-716.
RoutesFinish ==
    /\ pc = "routes_loop"
    /\ r_i = Len(filtered_activities)
    /\ LET l == Legend(accounts, r_stats, r_colors, <<>>)
       IN  /\ r_stats' = l.stats
           /\ r_colors' = l.colors
    /\ written' = written \cup {RoutesFileName}
    /\ routes_file' = Some(RoutesFileName)
    /\ pc' = "heat_begin"
    /\ UNCHANGED <<mainVars, printed, mapVars, r_i, r_drawn, geoVars, aggVars,
                   renderVars, colorVars, resolverVars, densityVars,
                   regionVars>>

\* ------------------------------------------------------ location detail map

WordChars ==
    Chars(UpperCase) \cup Chars(LowerCase) \cup Chars(Digits)
        \cup {"_", "ä", "ö", "ü", "é", "ß"}

SpaceChars == {" ", "\t", "\n"}

\* re.sub(r"[^\w\s-]", "", s): character by character, the string split
\* in halves.
RECURSIVE StripDisallowed(_)
StripDisallowed(s) ==
    IF Len(s) = 0 THEN ""
    ELSE IF Len(s) = 1
    THEN (IF s \in WordChars \cup SpaceChars \cup {"-"} THEN s ELSE "")
    ELSE LET h == Len(s) \div 2
         IN  StripDisallowed(SubSeq(s, 1, h))
                \o StripDisallowed(SubSeq(s, h + 1, Len(s)))

\* str.strip(): from the first to the last character that is no whitespace.
Strip(s) ==
    LET kept == {i \in 1..Len(s) : SubSeq(s, i, i) \notin SpaceChars}
    IN  IF kept = {} THEN ""
        ELSE SubSeq(s, CHOOSE i \in kept : \A j \in kept : i <= j,
                       CHOOSE i \in kept : \A j \in kept : i >= j)

\* str.replace(" ", "_"): character by character, the string split in
\* halves.
RECURSIVE ReplaceSpaces(_)
ReplaceSpaces(s) ==
    IF Len(s) = 0 THEN ""
    ELSE IF Len(s) = 1 THEN (IF s = " " THEN "_" ELSE s)
    ELSE LET h == Len(s) \div 2
         IN  ReplaceSpaces(SubSeq(s, 1, h))
                \o ReplaceSpaces(SubSeq(s, h + 1, Len(s)))

SafeNameLimit == 50

\* safe_name, line 455.
SafeName(location_key) ==
    LET t == ReplaceSpaces(Strip(StripDisallowed(location_key)))
    IN  SubSeq(t, 1, IF Len(t) < SafeNameLimit THEN Len(t) ELSE SafeNameLimit)

\* The try block of the detail map's route loop, lines 477-505.
AddLocationRoute(activity, st) ==
    IF activity.summary_polyline = "" \/ ~Decodes(activity.summary_polyline)
    THEN st
    ELSE LET colors == get_account_color(activity.account, st.colors)
         IN  [colors |-> colors,
              stats |-> CountActivity(st.stats, activity.account,
                                      Lower(activity.type)),
              drawn |-> Append(st.drawn,
                               [activity |-> activity,
                                color |-> colors[activity.account]])]

RECURSIVE LocationRoutes(_, _)
LocationRoutes(acts, st) ==
    IF acts = <<>> THEN st
    ELSE LocationRoutes(Tail(acts), AddLocationRoute(Head(acts), st))

\* The detail map's legend, lines 507-522: only the accounts that have
\* statistics in this location.
RECURSIVE LocationLegend(_, _, _, _)
LocationLegend(names, stats, colors, rows) ==
    IF names = <<>> THEN [colors |-> colors, legend |-> rows]
    ELSE LET n == Head(names) IN
         IF n \in DOMAIN stats
         THEN LET cs == get_account_color(n, colors)
              IN  LocationLegend(Tail(names), stats, cs,
                                 Append(rows, [account |-> n, color |-> cs[n],
                                               stats |-> stats[n]]))
         ELSE LocationLegend(Tail(names), stats, colors, rows)

\* create_location_routes_map: None when no member has coordinates,
\* otherwise the document's name and what the map shows.
create_location_routes_map(location_key, acts, names) ==
    IF ~HasLocated(acts)
    THEN [filename |-> None, stats |-> Empty, colors |-> Empty,
          drawn |-> <<>>, legend |-> <<>>]
    ELSE LET st == LocationRoutes(acts, [stats |-> Empty, colors |-> Empty,
                                         drawn |-> <<>>])
             l == LocationLegend(names, st.stats, st.colors, <<>>)
         IN  [filename |-> Some("location_" \o SafeName(location_key)
                                 \o ".html"),
              stats |-> st.stats, colors |-> l.colors, drawn |-> st.drawn,
              legend |-> l.legend]

\* --------------------------------------------------------- combined heatmap

\* Lines 759-769: the country a location key names, or None.
CountryOf(location_key) ==
    IF Contains(location_key, ", ")
    THEN Some(LastPart(location_key, ", "))
    ELSE IF get_continent_from_country(location_key) /= "Unknown"
    THEN Some(location_key)
    ELSE None

NewLocation ==
    [count |-> 0, lat |-> 0, lng |-> 0, activities |-> <<>>,
     by_account |-> Empty]

CountOf(by_account, account_name) ==
    IF account_name \in DOMAIN by_account THEN by_account[account_name] ELSE 0

AddToLocationSkipsAccount(data, location_key, activity) ==
    LET d == IF location_key \in DOMAIN data THEN data[location_key]
             ELSE NewLocation
    IN  (location_key :>
            [count |-> d.count + 1,
             lat |-> activity.start_latlng[1],
             lng |-> activity.start_latlng[2],
             activities |-> Append(d.activities, activity),
             by_account |-> IF d.count = 0
                            THEN (activity.account :> 1) @@ d.by_account
                            ELSE d.by_account])
        @@ data

\* Lines 777-781.
AddToLocation(data, location_key, activity) ==
    LET d == IF location_key \in DOMAIN data THEN data[location_key]
             ELSE NewLocation
    IN  (location_key :>
            [count |-> d.count + 1,
             lat |-> activity.start_latlng[1],
             lng |-> activity.start_latlng[2],
             activities |-> Append(d.activities, activity),
             by_account |-> (activity.account :>
                                CountOf(d.by_account, activity.account) + 1)
                            @@ d.by_account])
        @@ data

\* create_combined_heatmap up to the aggregation loop, lines 724-746.
HeatBegin ==
    /\ pc = "heat_begin"
    /\ filtered_activities' = FilterTracked(all_activities)
    /\ pc' = "heat"
    /\ UNCHANGED <<mainVars, outVars, routesVars, geoVars, aggVars,
                   renderVars, colorVars, resolverVars, densityVars,
                   regionVars>>

\* One turn of the aggregation loop, lines 748-781, with the reverse
\* geocoding request get_location_key may make.
HeatAggregate ==
    /\ pc = "heat"
    /\ h_i < Len(filtered_activities)
    /\ h_i' = h_i + 1
    /\ LET activity == filtered_activities[h_i + 1] IN
       IF ~HasLatLng(activity)
       THEN UNCHANGED <<geoVars, location_data, loc_order, countries_visited,
                        continents_visited>>
       ELSE \E resp \in RunGeoResponses :
              LET r == get_location_key(activity, geocode_cache, resp)
                  country == CountryOf(r.key)
                  continent == IF Truthy(country)
                               THEN get_continent_from_country(country[1])
                               ELSE "Unknown"
              IN  /\ geocode_cache' = r.cache
                  /\ net_log' = net_log \o r.net
                  /\ countries_visited' =
                        IF Truthy(country)
                        THEN countries_visited \cup {country[1]}
                        ELSE countries_visited
                  /\ continents_visited' =
                        IF continent /= "Unknown"
                        THEN continents_visited \cup {continent}
                        ELSE continents_visited
                  /\ location_data' =
                        AddToLocation(location_data, r.key, activity)
                  /\ loc_order' =
                        IF r.key \in DOMAIN location_data THEN loc_order
                        ELSE Append(loc_order, r.key)
    /\ UNCHANGED <<pc, mainVars, outVars, mapVars, routesVars, renderVars,
                   colorVars, resolverVars, densityVars,
                   regionVars>>

LocationFolder == "location_maps_" \o Timestamp

\* One turn of the detail map loop, lines 788-796.
HeatDetailMap ==
    /\ pc = "heat"
    /\ h_i = Len(filtered_activities)
    /\ detail_i < Len(loc_order)
    /\ detail_i' = detail_i + 1
    /\ LET location_key == loc_order[detail_i + 1]
           m == create_location_routes_map(
                    location_key, location_data[location_key].activities,
                    accounts)
       IN  IF m.filename /= None
           THEN /\ detail_maps' = (location_key :> m) @@ detail_maps
                /\ location_map_files' =
                      (location_key :> m.filename[1]) @@ location_map_files
                /\ written' =
                      written \cup {LocationFolder \o "/" \o m.filename[1]}
           ELSE UNCHANGED <<detail_maps, location_map_files, written>>
    /\ UNCHANGED <<pc, mainVars, printed, mapVars, routesVars, geoVars,
                   aggVars, markers, h_stats, h_colors, sidebar, heatmap_file,
                   colorVars, resolverVars, densityVars,
                   regionVars>>

BaseRadius == 400000

RadiusRange == 600000

MinOf(S) == CHOOSE x \in S : \A y \in S : x <= y

MaxOf(S) == CHOOSE x \in S : \A y \in S : x >= y

RadiusNoEqualCase(count, min_count, max_count) ==
    [num |-> BaseRadius * (max_count - min_count)
                + (count - min_count) * RadiusRange,
     den |-> max_count - min_count]

\* Lines 818-823.  The radius is the rational num/den: normalized is
\* (count - min_count)/(max_count - min_count), or 1.
Radius(count, min_count, max_count) ==
    IF max_count > min_count
    THEN [num |-> BaseRadius * (max_count - min_count)
                     + (count - min_count) * RadiusRange,
          den |-> max_count - min_count]
    ELSE [num |-> BaseRadius + RadiusRange, den |-> 1]

\* Lines 809-811.
min_count_of(cs) == IF cs = {} THEN 1 ELSE MinOf(cs)

max_count_of(cs) == IF cs = {} THEN 1 ELSE MaxOf(cs)

MarkerWithoutFolder(location_key, data, files) ==
    LET cs == {data[k].count : k \in DOMAIN data}
    IN  [lat |-> data[location_key].lat,
         lng |-> data[location_key].lng,
         radius |-> Radius(data[location_key].count, min_count_of(cs),
                           max_count_of(cs)),
         count |-> data[location_key].count,
         by_account |-> data[location_key].by_account,
         link |-> IF location_key \in DOMAIN files
                  THEN Some("./" \o files[location_key])
                  ELSE None]

\* The circle of one location, lines 813-873: its position, its radius, the
\* counts its tooltip shows and the document its popup opens (None: no
\* popup).  The circle's color, assign_region_color(location_key), is not
\* part of the record.
Marker(location_key, data, files) ==
    LET cs == {data[k].count : k \in DOMAIN data}
    IN  [lat |-> data[location_key].lat,
         lng |-> data[location_key].lng,
         radius |-> Radius(data[location_key].count, min_count_of(cs),
                           max_count_of(cs)),
         count |-> data[location_key].count,
         by_account |-> data[location_key].by_account,
         link |-> IF location_key \in DOMAIN files
                  THEN Some("./" \o LocationFolder \o "/"
                            \o files[location_key])
                  ELSE None]

\* The marker loop, lines 809-873.
HeatMarkers ==
    /\ pc = "heat"
    /\ h_i = Len(filtered_activities)
    /\ detail_i = Len(loc_order)
    /\ markers' = [k \in DOMAIN location_data |->
                      Marker(k, location_data, location_map_files)]
    /\ pc' = "heat_sidebar"
    /\ UNCHANGED <<mainVars, outVars, mapVars, routesVars, geoVars, aggVars,
                   detail_i, detail_maps, location_map_files, h_stats, h_colors,
                   sidebar, heatmap_file, colorVars, resolverVars, regionVars,
                   densityVars>>

RECURSIVE HeatStatsLocatedOnly(_, _)
HeatStatsLocatedOnly(acts, stats) ==
    IF acts = <<>> THEN stats
    ELSE HeatStatsLocatedOnly(
             Tail(acts),
             IF HasLatLng(Head(acts))
             THEN CountActivity(stats, Head(acts).account,
                                Lower(Head(acts).type))
             ELSE stats)

\* Lines 875-887.
RECURSIVE HeatStats(_, _)
HeatStats(acts, stats) ==
    IF acts = <<>> THEN stats
    ELSE HeatStats(Tail(acts),
                   CountActivity(stats, Head(acts).account,
                                 Lower(Head(acts).type)))

HeatmapFileName == "combined_heatmap_" \o Timestamp \o ".html"

\* The statistics, the sidebar and the save, lines 875-1009.
HeatSidebar ==
    /\ pc = "heat_sidebar"
    /\ LET l == Legend(accounts, HeatStats(filtered_activities, Empty),
                       Empty, <<>>)
       IN  /\ h_stats' = l.stats
           /\ h_colors' = l.colors
    /\ sidebar' = [accounts |-> Len(accounts),
                   workouts |-> Len(filtered_activities),
                   locations |-> Cardinality(DOMAIN location_data)]
    /\ written' = written \cup {HeatmapFileName}
    /\ heatmap_file' = Some(HeatmapFileName)
    /\ pc' = "done"
    /\ UNCHANGED <<mainVars, printed, mapVars, routesVars, geoVars, aggVars,
                   detail_i, detail_maps, location_map_files, markers,
                   colorVars,
                   resolverVars, densityVars,
                   regionVars>>

Next ==
    \/ Authenticate
    \/ FetchPage
    \/ RoutesBegin
    \/ RoutesAddRoute
    \/ RoutesFinish
    \/ HeatBegin
    \/ HeatAggregate
    \/ HeatDetailMap
    \/ HeatMarkers
    \/ HeatSidebar

Spec == Init /\ [][Next]_vars

\* The radius of the next location's circle, from the counts of all.
DensityRadius ==
    /\ pc = "density"
    /\ Len(radii) < Len(counts)
    /\ LET cs == {counts[k] : k \in 1..Len(counts)}
       IN  radii' = Append(radii, Radius(counts[Len(radii) + 1],
                                         min_count_of(cs), max_count_of(cs)))
    /\ UNCHANGED <<pc, mainVars, outVars, mapVars, routesVars, geoVars,
                   aggVars, renderVars, colorVars, resolverVars, regionVars,
                   counts>>

SpecDensity == InitDensity /\ [][DensityRadius]_vars

\* --------------------------------------------- the maps of named locations

\* A village name longer than the detail map's name limit.
LongCity == "Llanfairpwllgwyngyllgogerychwyrndrobwllllantysiliogogogoch"

\* City and country as the activity listing can give them: with
\* punctuation, a hyphen, a tab, more than 50 characters, with and without
\* the country.
NamedPlaces ==
    {<<"Berlin", "Germany">>, <<"Saint-Denis", "France">>,
     <<"St. Ives", "United Kingdom">>, <<"St Ives", "United Kingdom">>,
     <<"Brighton & Hove", "United Kingdom">>, <<"Bad\tHomburg", "Germany">>,
     <<LongCity, "United Kingdom">>, <<LongCity, "">>}

NamedActivities ==
    {[account |-> n, type |-> "Run", start_latlng |-> Berlin1,
      location_city |-> p[1], location_country |-> p[2],
      summary_polyline |-> "enc"] : n \in {"m", "a"}, p \in NamedPlaces}

\* main after the account loop, with activities of named places loaded.
InitNames ==
    /\ pc = "routes"
    /\ accounts = <<"m", "a">>
    /\ cred_i = Len(accounts) + 1
    /\ all_activities \in SeqsUpTo(NamedActivities, MaxNamed) \ {<<>>}
    /\ Blank
    /\ counts = Empty
    /\ radii = Empty

\* main from the combined routes map on.
NextMaps ==
    \/ RoutesBegin
    \/ RoutesAddRoute
    \/ RoutesFinish
    \/ HeatBegin
    \/ HeatAggregate
    \/ HeatDetailMap
    \/ HeatMarkers
    \/ HeatSidebar

SpecNames == InitNames /\ [][NextMaps]_vars

\* ------------------------------------------------------------ region colors

RegionPalette ==
    <<"#ef4444", "#f59e0b", "#eab308", "#84cc16", "#22c55e", "#10b981",
      "#14b8a6", "#06b6d4", "#0ea5e9", "#3b82f6", "#6366f1", "#8b5cf6",
      "#a855f7", "#d946ef", "#ec4899", "#f43f5e", "#fb923c", "#fbbf24",
      "#a3e635", "#4ade80">>

\* Two invocations of the program.
Processes == {"first run", "second run"}

RegionKeys == {"Berlin, Germany", "Narnia", "Location (52.5°, 13.4°)"}

\* Values hash() can give a string.  Python salts str hashes with a random
\* value chosen when the process starts (PYTHONHASHSEED unset), so the hash
\* of a key is any integer, the same one for the whole process.
HashValues == {-7, -1, 0, 5, 26}

\* What hash(location_key) can be in process p, given the hashes the
\* process has computed so far.
Hashes(p, location_key) ==
    IF <<p, location_key>> \in DOMAIN str_hash
    THEN {str_hash[<<p, location_key>>]}
    ELSE HashValues

\* assign_region_color, lines 446-447, from hash(location_key).  Python's %
\* takes the sign of the divisor, as TLA+'s does.
assign_region_color(location_key, hash_val) ==
    RegionPalette[(hash_val % Len(RegionPalette)) + 1]

InitRegion ==
    /\ pc = "region"
    /\ accounts = <<>>
    /\ cred_i = 1
    /\ all_activities = <<>>
    /\ Blank
    /\ counts = Empty
    /\ radii = Empty

\* One assign_region_color call in one of the processes.
AssignRegionColor ==
    /\ pc = "region"
    /\ \E p \in Processes, location_key \in RegionKeys :
          \E hash_val \in Hashes(p, location_key) :
             /\ str_hash' = (<<p, location_key>> :> hash_val) @@ str_hash
             /\ region_colors' =
                   (<<p, location_key>> :>
                       assign_region_color(location_key, hash_val))
                   @@ region_colors
    /\ UNCHANGED <<pc, mainVars, outVars, mapVars, routesVars, geoVars,
                   aggVars, renderVars, colorVars, resolverVars, densityVars>>

SpecRegion == InitRegion /\ [][AssignRegionColor]_vars

\* ------------------------------------------------------------------ claims

RECURSIVE SumValues(_)
SumValues(f) ==
    IF DOMAIN f = {} THEN 0
    ELSE LET k == CHOOSE x \in DOMAIN f : TRUE
         IN  f[k] + SumValues([x \in DOMAIN f \ {k} |-> f[x]])

\* C1: after any prefix of the aggregation loop, every location's per-account
\* counts add up to its count, which is the length of its activities list.
C1_ByAccountSumsToCount ==
    \A k \in DOMAIN location_data :
        /\ SumValues(location_data[k].by_account) = location_data[k].count
        /\ location_data[k].count = Len(location_data[k].activities)

\* Three activities of two accounts aggregated into one location.
C1_Witness ==
    \E k \in DOMAIN location_data :
        /\ location_data[k].count = 3
        /\ Cardinality(DOMAIN location_data[k].by_account) = 2

CoordinateText ==
    (Berlin1 :> "Location (52.5°, 13.4°)")
    @@ (Berlin2 :> "Location (52.5°, 13.4°)")
    @@ (CapeTown :> "Location (-33.9°, 18.4°)")

\* C2: get_location_key returns a non-empty key by the priority "city,
\* country", country, city, then for an activity with coordinates the
\* reverse-geocoded name (cached, or just looked up) and failing that the
\* coordinate text with one decimal, and "Unknown" without coordinates.  The
\* key of an activity with city and country depends on these two alone.
C2_LocationKeyPriority ==
    resolved /= None =>
        LET a == resolved[1].activity
            key == resolved[1].key
            resp == resolved[1].resp
            before == resolved[1].before
            city == a.location_city
            country == a.location_country
            cell == CacheKey(a.start_latlng)
            looked_up ==
                IF cell \in DOMAIN before THEN before[cell]
                ELSE IF resp.raised \/ resp.status /= 200 THEN None
                ELSE IF resp.city /= "" /\ resp.country /= ""
                THEN Some(resp.city \o ", " \o resp.country)
                ELSE IF resp.country /= "" THEN Some(resp.country)
                ELSE IF resp.city /= "" THEN Some(resp.city)
                ELSE None
        IN  /\ key /= ""
            /\ (city /= "" /\ country /= "") => key = city \o ", " \o country
            /\ (city = "" /\ country /= "") => key = country
            /\ (city /= "" /\ country = "") => key = city
            /\ (city = "" /\ country = "" /\ a.start_latlng = <<>>)
                  => key = "Unknown"
            /\ (city = "" /\ country = "" /\ a.start_latlng /= <<>>)
                  => IF looked_up /= None THEN key = looked_up[1]
                     ELSE key = CoordinateText[a.start_latlng]

\* An activity with city, country and coordinates is resolved while the
\* cache holds another name for its cell.
C2_Witness ==
    /\ resolved /= None
    /\ resolved[1].activity.location_city /= ""
    /\ resolved[1].activity.location_country /= ""
    /\ resolved[1].activity.start_latlng /= <<>>
    /\ CacheKey(resolved[1].activity.start_latlng)
          \in DOMAIN resolved[1].before
    /\ resolved[1].before[CacheKey(resolved[1].activity.start_latlng)]
          = Some("Berlin, Germany")

RunWalkRide(activity) ==
    activity.type \in {"Run", "run", "RUN", "Walk", "walk", "WALK",
                       "Ride", "ride", "RIDE"}

NumberOf(acts, account_name) ==
    Cardinality({i \in 1..Len(acts) :
                    acts[i].account = account_name /\ RunWalkRide(acts[i])})

NumberDrawn(drawn, account_name) ==
    Cardinality({i \in 1..Len(drawn) :
                    /\ drawn[i].activity.account = account_name
                    /\ RunWalkRide(drawn[i].activity)})

\* C3: an activity that is no run, walk or ride is drawn on no map, is a
\* member of no location, and is counted in no per-account count or total of
\* the routes map, the heatmap and the detail maps, nor in the heatmap's
\* workout total.
C3_OtherKindsExcluded ==
    /\ \A i \in 1..Len(r_drawn) : RunWalkRide(r_drawn[i].activity)
    /\ \A n \in DOMAIN r_stats :
          r_stats[n].total = NumberDrawn(r_drawn, n)
    /\ \A k \in DOMAIN location_data :
          /\ \A i \in 1..Len(location_data[k].activities) :
                RunWalkRide(location_data[k].activities[i])
          /\ \A n \in DOMAIN location_data[k].by_account :
                location_data[k].by_account[n]
                   = NumberOf(location_data[k].activities, n)
    /\ \A k \in DOMAIN detail_maps :
          /\ \A i \in 1..Len(detail_maps[k].drawn) :
                RunWalkRide(detail_maps[k].drawn[i].activity)
          /\ \A n \in DOMAIN detail_maps[k].stats :
                detail_maps[k].stats[n].total
                   = NumberDrawn(detail_maps[k].drawn, n)
    /\ pc = "done" =>
          /\ \A n \in DOMAIN h_stats :
                h_stats[n].total = NumberOf(all_activities, n)
          /\ sidebar.workouts
                = Cardinality({i \in 1..Len(all_activities) :
                                  RunWalkRide(all_activities[i])})

\* A finished run that loaded a hike with coordinates and a polyline next to
\* a run that was drawn and aggregated.
C3_Witness ==
    /\ pc = "done"
    /\ \E i \in 1..Len(all_activities) :
          /\ all_activities[i].type = "Hike"
          /\ all_activities[i].start_latlng /= <<>>
          /\ all_activities[i].summary_polyline = "enc"
    /\ Len(r_drawn) > 0
    /\ DOMAIN detail_maps /= {}

\* C4: every account has the same color in the combined routes map, in the
\* heatmap sidebar and in every location detail map of one run.
C4_SameColorInEveryArtifact ==
    pc = "done" =>
        \A k \in 1..Len(accounts) :
            LET n == accounts[k] IN
            /\ n \in DOMAIN r_colors => r_colors[n] = h_colors[n]
            /\ \A loc \in DOMAIN detail_maps :
                  n \in DOMAIN detail_maps[loc].colors
                     => detail_maps[loc].colors[n] = h_colors[n]

\* C5: two different account identifiers of one mapping never have the same
\* color while the mapping holds at most as many accounts as the palette has
\* colors.  Stated for identifiers that differ even when case is ignored: an
\* identifier and its upper-case spelling are left out.
C5_DistinctAccountsDistinctColors ==
    Cardinality(DOMAIN account_colors) <= Len(Palette) =>
        \A n1, n2 \in DOMAIN account_colors :
            Lower(n1) /= Lower(n2) => account_colors[n1] /= account_colors[n2]

\* The names of calls[1..i-1], without repetition.
SeenBefore(i) == {calls[j] : j \in 1..(i - 1)}

FirstCall(account_name) ==
    CHOOSE i \in 1..Len(calls) :
        calls[i] = account_name /\ account_name \notin SeenBefore(i)

\* C6: "m", "a" and "o" (in either case) always have violet, green and
\* orange; any other identifier has the palette color whose index is the
\* number of different identifiers passed before its first call, whatever
\* was passed after; and each call returns the identifier's color.
C6_ColorFromCallHistory ==
    /\ DOMAIN account_colors = {calls[i] : i \in 1..Len(calls)}
    /\ \A n \in DOMAIN account_colors :
          CASE n \in {"m", "M"} -> account_colors[n] = "#8b5cf6"
            [] n \in {"a", "A"} -> account_colors[n] = "#10b981"
            [] n \in {"o", "O"} -> account_colors[n] = "#f97316"
            [] OTHER ->
                account_colors[n]
                   = Palette[(Cardinality(SeenBefore(FirstCall(n))) % 10) + 1]
    /\ calls /= <<>> => returned = Some(account_colors[calls[Len(calls)]])

\* A reserved identifier is passed between two others, and the first one is
\* passed again.
C6_Witness ==
    /\ Len(calls) = 4
    /\ calls[1] = "x" /\ calls[2] = "M" /\ calls[3] = "y" /\ calls[4] = "x"

\* C7: every radius is 400000 + normalized * 600000 and lies between 400000
\* and 1000000; the largest count has 1000000, the smallest 400000 when the
\* counts differ, and all have 1000000 when the counts are all equal.
C7_RadiusNormalised ==
    LET cs == {counts[k] : k \in 1..Len(counts)}
        lo == MinOf(cs)
        hi == MaxOf(cs)
    IN  \A i \in 1..Len(radii) :
            LET r == radii[i] IN
            /\ r.den > 0
            /\ 400000 * r.den <= r.num /\ r.num <= 1000000 * r.den
            /\ hi > lo =>
                  r.num * (hi - lo)
                     = r.den * (400000 * (hi - lo) + (counts[i] - lo) * 600000)
            /\ counts[i] = hi => r.num = 1000000 * r.den
            /\ (hi > lo /\ counts[i] = lo) => r.num = 400000 * r.den
            /\ hi = lo => r.num = 1000000 * r.den

\* Three locations with the smallest, a middle and the largest count, all
\* radii computed.
C7_Witness ==
    /\ pc = "density"
    /\ counts = <<1, 2, 4>>
    /\ Len(radii) = 3

NoCoordinates ==
    /\ all_activities /= <<>>
    /\ \A i \in 1..Len(all_activities) : all_activities[i].start_latlng = <<>>

\* C8 as stated: when no activity has coordinates, the routes map reports
\* the failure and writes no file, and no heatmap document is produced.
C8_NoCoordinatesNoDocuments ==
    (pc = "done" /\ NoCoordinates) =>
        /\ NoGpsMessage \in printed
        /\ routes_file = None
        /\ RoutesFileName \notin written
        /\ heatmap_file = None
        /\ HeatmapFileName \notin written

\* C8 as amended: when no activity has coordinates, the routes map reports
\* the failure and writes no file, and the heatmap has no location, no
\* detail map and no marker; its document is saved all the same.
C8_NoCoordinatesEmptyHeatmap ==
    (pc \in {"heat_begin", "heat", "heat_sidebar", "done"} /\ NoCoordinates)
    =>  /\ NoGpsMessage \in printed
        /\ routes_file = None
        /\ RoutesFileName \notin written
        /\ DOMAIN location_data = {}
        /\ DOMAIN detail_maps = {}
        /\ DOMAIN markers = {}
        /\ pc = "done" =>
              /\ heatmap_file = Some(HeatmapFileName)
              /\ written = {HeatmapFileName}
              /\ sidebar.locations = 0

\* A finished run whose activities all lack coordinates.
C8_Witness == pc = "done" /\ NoCoordinates /\ Len(all_activities) = 2

\* The scenario of C9: accounts "m" and "a"; a run of each at the same
\* rounded coordinate, with no city or country; a ride of "m" with city and
\* country and no coordinates.
Scenario ==
    /\ accounts = <<"m", "a">>
    /\ Len(all_activities) = 3
    /\ \E i, j, k \in 1..3 :
          /\ {i, j, k} = 1..3
          /\ LET run_m == all_activities[i]
                 run_a == all_activities[j]
                 ride_m == all_activities[k]
             IN  /\ run_m.account = "m" /\ run_m.type \in {"Run", "run"}
                 /\ run_a.account = "a" /\ run_a.type \in {"Run", "run"}
                 /\ run_m.start_latlng /= <<>> /\ run_a.start_latlng /= <<>>
                 /\ CacheKey(run_m.start_latlng) = CacheKey(run_a.start_latlng)
                 /\ run_m.location_city = "" /\ run_m.location_country = ""
                 /\ run_a.location_city = "" /\ run_a.location_country = ""
                 /\ ride_m.account = "m" /\ ride_m.type = "Ride"
                 /\ ride_m.start_latlng = <<>>
                 /\ ride_m.location_city /= ""
                 /\ ride_m.location_country /= ""

ScenarioStatsAndColors ==
    /\ h_stats["m"] = [runs |-> 1, walks |-> 0, rides |-> 1, total |-> 2]
    /\ h_stats["a"] = [runs |-> 1, walks |-> 0, rides |-> 0, total |-> 1]
    /\ h_colors["m"] = "#8b5cf6"
    /\ h_colors["a"] = "#10b981"

\* C9 as stated: the scenario ends with two locations, "m" with 1 run and
\* 1 ride of 2, "a" with 1 run of 1, "m" violet and "a" green.
C9_ScenarioTwoLocations ==
    (pc = "done" /\ Scenario) =>
        /\ Cardinality(DOMAIN location_data) = 2
        /\ ScenarioStatsAndColors

\* C9 as amended: the scenario ends with one location, the one of the two
\* runs (the ride has no coordinates and is aggregated nowhere); the
\* statistics and the colors are as stated.
C9_ScenarioOneLocation ==
    (pc = "done" /\ Scenario) =>
        /\ Cardinality(DOMAIN location_data) = 1
        /\ \A loc \in DOMAIN location_data :
              /\ location_data[loc].count = 2
              /\ location_data[loc].by_account = ("m" :> 1) @@ ("a" :> 1)
        /\ ScenarioStatsAndColors

\* The scenario, run to the end.
C9_Witness == pc = "done" /\ Scenario

\* C10: no transport failure during authentication, fetch or reverse
\* geocoding ends the run: the run is never left through an exception.
C10_TransportFailureNeverAborts == pc /= "aborted"

\* The name of a detail document without the "location_" prefix and the
\* ".html" extension.
DetailName(filename) == SubSeq(filename, 10, Len(filename) - 5)

\* C11: for every LocationKey the detail-map name (before the prefix and
\* the extension) has at most 50 characters, all of them word characters,
\* hyphens or the separator that replaces spaces; no whitespace character
\* of the key survives and a run of whitespace gives a single separator.
C11_DetailNameSanitized ==
    \A location_key \in DOMAIN location_map_files :
       LET name == DetailName(location_map_files[location_key]) IN
       /\ Len(name) <= SafeNameLimit
       /\ \A i \in 1..Len(name) :
             /\ SubSeq(name, i, i) \in WordChars \cup {"-"}
             /\ SubSeq(name, i, i) \notin SpaceChars
       /\ ~Contains(location_key, "_") => ~Contains(name, "__")

\* C12: the region color is a function of the LocationKey alone: the same
\* key gets the same color on every call, in one run and in separate
\* invocations of the program, and the color is one of the 20 of the
\* palette.
C12_RegionColorPure ==
    \A c, d \in DOMAIN region_colors :
       /\ c[2] = d[2] => region_colors[c] = region_colors[d]
       /\ \E i \in 1..Len(RegionPalette) : region_colors[c] = RegionPalette[i]

\* C13: two distinct LocationKeys of a run never get the same detail
\* document name, so that no detail map is overwritten by the map of another
\* location and every marker's link opens the map of its own location.
C13_DetailNamesCollisionFree ==
    \A k1, k2 \in DOMAIN location_map_files :
       k1 /= k2 =>
          /\ location_map_files[k1] /= location_map_files[k2]
          /\ (k1 \in DOMAIN markers /\ k2 \in DOMAIN markers)
                => markers[k1].link /= markers[k2].link

\* C14: the representative (lat, lng) of a LocationAggregate, the marker's
\* position, is the start coordinate of the location's first-seen member
\* activity and does not change when later activities are added.
C14_RepresentativeIsFirstSeen ==
    \A location_key \in DOMAIN location_data :
       LET d == location_data[location_key]
       IN  /\ <<d.lat, d.lng>> = d.activities[1].start_latlng
           /\ location_key \in DOMAIN markers =>
                 <<markers[location_key].lat, markers[location_key].lng>>
                    = d.activities[1].start_latlng

NoLatLng(activity) == ~HasLatLng(activity)

\* How many of the account's activities in acts have no start coordinate.
NumberUnlocated(acts, account_name) ==
    Cardinality({i \in 1..Len(acts) :
                    acts[i].account = account_name /\ NoLatLng(acts[i])})

TotalInLocations(account_name) ==
    SumValues([k \in DOMAIN location_data |->
                  CountOf(location_data[k].by_account, account_name)])

\* C15: in the heatmap the statistics of every account and the location
\* aggregation cover the same activities: the account's total is the sum of
\* its by_account counts over all locations, also when filtered activities
\* have no start coordinate.
C15_StatsTotalEqualsLocationCounts ==
    pc = "done" =>
       \A i \in 1..Len(accounts) :
          StatsOf(h_stats, accounts[i]).total = TotalInLocations(accounts[i])

\* C15, amended: both are computed from the same filtered list, but the
\* aggregation leaves out the activities without start coordinate: the
\* account's total is the sum of its by_account counts plus the number of
\* its filtered activities without start coordinate.
C15_StatsTotalIsLocationCountsPlusUnlocated ==
    pc = "done" =>
       \A i \in 1..Len(accounts) :
          StatsOf(h_stats, accounts[i]).total
             = TotalInLocations(accounts[i])
               + NumberUnlocated(filtered_activities, accounts[i])

C15_Witness ==
    /\ pc = "done"
    /\ \E i, j \in 1..Len(filtered_activities) :
          /\ filtered_activities[i].account = filtered_activities[j].account
          /\ HasLatLng(filtered_activities[i])
          /\ ~HasLatLng(filtered_activities[j])

\* The requests sent for one cell so far.
RequestsFor(cell) ==
    {i \in 1..Len(net_log) :
        net_log[i].op = "request" /\ net_log[i].cell = cell}

\* The location the aggregation put the i-th filtered activity in.
KeysOf(i) ==
    {k \in DOMAIN location_data :
        \E n \in 1..Len(location_data[k].activities) :
           location_data[k].activities[n] = filtered_activities[i]}

Unplaced(activity) ==
    activity.location_city = "" /\ activity.location_country = ""

AtMostOneRequestPerCell ==
    \A i \in 1..Len(net_log) :
       Cardinality(RequestsFor(net_log[i].cell)) <= 1

\* C16: for each rounded coordinate cell at most one reverse-geocoding
\* request is sent in a run, whatever it comes back with, and every later
\* activity in the same cell resolves to the same LocationKey as the first.
C16_OneRequestPerCellSameKey ==
    /\ AtMostOneRequestPerCell
    /\ \A i, j \in 1..h_i :
          (/\ HasLatLng(filtered_activities[i])
           /\ HasLatLng(filtered_activities[j])
           /\ CacheKey(filtered_activities[i].start_latlng)
                 = CacheKey(filtered_activities[j].start_latlng))
          => KeysOf(i) = KeysOf(j)

\* C16, amended: at most one request per cell and run, whatever its
\* outcome; every later activity in the cell that has no city and country of
\* its own is answered from the cache and gets the key of the first such
\* activity (an activity with a city or country of its own is keyed by them,
\* without a lookup).
C16_OneRequestPerCellSameKeyWhenLookedUp ==
    /\ AtMostOneRequestPerCell
    /\ \A i, j \in 1..h_i :
          (/\ HasLatLng(filtered_activities[i])
           /\ HasLatLng(filtered_activities[j])
           /\ Unplaced(filtered_activities[i])
           /\ Unplaced(filtered_activities[j])
           /\ CacheKey(filtered_activities[i].start_latlng)
                 = CacheKey(filtered_activities[j].start_latlng))
          => /\ KeysOf(i) = KeysOf(j)
             /\ Cardinality(KeysOf(i)) = 1
             /\ Cardinality(RequestsFor(
                    CacheKey(filtered_activities[i].start_latlng))) = 1

C16_Witness ==
    /\ h_i >= 2
    /\ Unplaced(filtered_activities[1])
    /\ Unplaced(filtered_activities[2])
    /\ HasLatLng(filtered_activities[1])
    /\ HasLatLng(filtered_activities[2])
    /\ filtered_activities[1].start_latlng
          /= filtered_activities[2].start_latlng
    /\ Len(net_log) = 1
    /\ geocode_cache
          = (CacheKey(filtered_activities[1].start_latlng) :> None)

\* C17: between any two consecutive reverse-geocoding requests of a run the
\* delay (sleep) occurs, whatever the earlier request came back with.
C17_SleepBetweenRequests ==
    \A i, j \in 1..Len(net_log) :
       (i < j /\ net_log[i].op = "request" /\ net_log[j].op = "request")
       => \E k \in (i + 1)..(j - 1) : net_log[k].op = "sleep"

\* The token requests of the last authenticate_strava call of one kind.
TokenRequests(kind) ==
    {i \in 1..Len(auth_log) : auth_log[i].request = kind}

\* What holds of a finished authenticate_strava call.
AuthenticatedOnce ==
    auth_call /= None =>
       LET call == auth_call[1]
           refreshes == TokenRequests("refresh")
           exchanges == TokenRequests("exchange")
       IN  /\ Cardinality(refreshes) <= 1
           /\ Cardinality(exchanges) <= 1
           /\ call.token_file = "valid" => (auth_log = <<>> /\ call.token)
           /\ refreshes /= {} => (call.token_file = "expired" /\ 1 \in refreshes)
           /\ exchanges /= {} =>
                 /\ call.token_file /= "valid"
                 /\ Len(auth_log) \in exchanges
                 /\ refreshes /= {} => auth_log[1].response = "error"
                 /\ auth_log[Len(auth_log)].response /= "ok" => ~call.token
           /\ (refreshes /= {} /\ auth_log[1].response = "ok") =>
                 (call.token /\ exchanges = {})

\* C18: authenticate_strava never retries: for each account of a run a
\* stored unexpired token is reused without a request; otherwise the
\* refresh is tried at most once, the full flow runs only when there is no
\* token file or the refresh did not give a token, with at most one token
\* exchange, and a failed exchange gives no token; main calls it once per
\* account.
C18_AuthenticateNeverRetries ==
    [][/\ pc = "auth" => AuthenticatedOnce'
       /\ pc' = "auth" => cred_i' = cred_i + 1]_vars

C18_Witness ==
    /\ auth_call /= None
    /\ auth_call[1].token_file = "expired"
    /\ ~auth_call[1].token
    /\ ~auth_call[1].raised
    /\ auth_log = <<[request |-> "refresh", response |-> "error"],
                    [request |-> "exchange", response |-> "error"]>>
    /\ cred_i = 3

\* C19: every detail map is generated before a marker is built and before
\* the heatmap document is saved; a marker has a link if and only if a
\* detail document was produced for its LocationKey in this run, and the
\* link is the run's location_maps_{timestamp} folder plus that document's
\* name; a location without coordinate-bearing member has no detail map and
\* no link.
C19_DetailMapsBeforeLinkedMarkers ==
    /\ (markers /= Empty \/ heatmap_file /= None) =>
          /\ h_i = Len(filtered_activities)
          /\ detail_i = Len(loc_order)
          /\ DOMAIN markers = DOMAIN location_data
    /\ \A location_key \in DOMAIN markers :
          /\ markers[location_key].link /= None
                <=> location_key \in DOMAIN location_map_files
          /\ location_key \in DOMAIN location_map_files =>
                /\ markers[location_key].link
                      = Some("./location_maps_" \o Timestamp \o "/"
                             \o location_map_files[location_key])
                /\ ("location_maps_" \o Timestamp \o "/"
                       \o location_map_files[location_key]) \in written
          /\ ~HasLocated(location_data[location_key].activities) =>
                /\ location_key \notin DOMAIN location_map_files
                /\ markers[location_key].link = None
    /\ LET unlocated == SelectSeq(filtered_activities, NoLatLng)
       IN  unlocated /= <<>> =>
              LET location_key ==
                     get_location_key(unlocated[1], Empty,
                                      CHOOSE r \in GeoResponses : TRUE).key
              IN  /\ create_location_routes_map(location_key, unlocated,
                                                accounts).filename = None
                  /\ Marker(location_key,
                            location_key :> [NewLocation EXCEPT !.count = 1],
                            location_map_files).link = None

C19_Witness ==
    /\ pc = "done"
    /\ Cardinality(DOMAIN markers) = 2
    /\ \E i \in 1..Len(filtered_activities) :
          NoLatLng(filtered_activities[i])
    /\ \A location_key \in DOMAIN markers :
          markers[location_key].link /= None

\* The activities of a location that name it by their country alone.
NamedByCountry(location_key) ==
    \E n \in 1..Len(location_data[location_key].activities) :
       LET activity == location_data[location_key].activities[n]
       IN  activity.location_city = ""
              /\ activity.location_country = location_key

\* C20: the country of every aggregated LocationKey that names one (the
\* last component after ", ", or the whole key when it is a country) is in
\* countries_visited, known to the classifier or not; an unknown country
\* adds no continent: "Unknown" is never in continents_visited and every
\* continent there is the continent of a country in countries_visited.
C20_CountriesAndContinents ==
    /\ \A location_key \in DOMAIN location_data :
          /\ Contains(location_key, ", ") =>
                LastPart(location_key, ", ") \in countries_visited
          /\ NamedByCountry(location_key) =>
                location_key \in countries_visited
    /\ "Unknown" \notin continents_visited
    /\ \A continent \in continents_visited :
          \E country \in countries_visited :
             get_continent_from_country(country) = continent

\* Every account of an account_stats mapping has total = runs + walks + rides.
TotalIsSumOfKinds(account_stats) ==
    \A account_name \in DOMAIN account_stats :
       LET stats == account_stats[account_name]
       IN  stats.total = stats.runs + stats.walks + stats.rides

\* C21: in the combined routes map, the heatmap sidebar and every location
\* detail map, after any number of processed activities, every account's
\* statistics have total = runs + walks + rides: only the three tracked
\* kinds are ever counted into total.
C21_TotalIsRunsWalksRides ==
    /\ TotalIsSumOfKinds(r_stats)
    /\ TotalIsSumOfKinds(h_stats)
    /\ \A n \in 0..Len(filtered_activities) :
          TotalIsSumOfKinds(HeatStats(SubSeq(filtered_activities, 1, n),
                                      Empty))
    /\ \A location_key \in DOMAIN detail_maps :
          TotalIsSumOfKinds(detail_maps[location_key].stats)

C21_Witness ==
    /\ pc = "done"
    /\ \E i \in 1..Len(all_activities) : ~IsTracked(all_activities[i])
    /\ \E account_name \in DOMAIN h_stats :
          h_stats[account_name].walks >= 1 /\ h_stats[account_name].runs >= 1
    /\ \E account_name \in DOMAIN r_stats : r_stats[account_name].total >= 1
    /\ \E location_key \in DOMAIN detail_maps :
          \E account_name \in DOMAIN detail_maps[location_key].stats :
             detail_maps[location_key].stats[account_name].total >= 1

====
